---- MODULE Spec2Model ----
(***************************************************************************)
(* MosaicMaker.rs: main() as a state machine.                              *)
(*                                                                         *)
(* The program parses three arguments, loads the source image from a path  *)
(* or a URL, derives the pattern tile with DynamicImage::thumbnail,        *)
(* allocates the canvas, overlays the pattern tile and a flat colour tile  *)
(* for every source pixel, and saves the canvas.                           *)
(*                                                                         *)
(* The calls into the image crate (thumbnail, ImageBuffer::new/from_fn,    *)
(* imageops::overlay, Pixel::blend) are modelled by what they do at the    *)
(* call sites of main: the crate is the 0.23 line, the last whose overlay  *)
(* takes u32 offsets as main passes them.                                  *)
(***************************************************************************)
EXTENDS Integers, Sequences, FiniteSets, TLC

(***************************************************************************)
(* Bounds of the model.                                                    *)
(***************************************************************************)
\* largest width of an explicitly enumerated source image
MaxW == 2
\* largest height of an explicitly enumerated source image
MaxH == 2
\* largest tile size taken from the command line (besides Half)
MaxTile == 3

(***************************************************************************)
(* u32 arithmetic.  TLC's integers are 32-bit signed, so 2^32 itself is    *)
(* never formed: a product is computed on 16-bit halves, and the widths,   *)
(* heights and coordinates the model holds are below 2^31.                 *)
(***************************************************************************)
\* 2^16: a u32 is Hi * Half + Lo
Half == 65536
\* i32::MAX, the largest integer TLC holds; u32::MAX = 2 * MaxInt + 1
MaxInt == 2147483647

\* floor(u32::MAX / b) for b >= 1, without forming u32::MAX
U32MaxDiv(b) ==
    IF b = 1 THEN MaxInt   \* only compared with values <= MaxInt
    ELSE 2 * (MaxInt \div b) + ((2 * (MaxInt % b) + 1) \div b)

\* a * b leaves the u32 range (debug build: "attempt to multiply with overflow")
MulOverflows(a, b) == a # 0 /\ b # 0 /\ a > U32MaxDiv(b)

\* the low 16 bits of a * b, for a, b < 2^16
Lo16Mul(a, b) ==
    LET p1 == a * (b \div 256)
        p0 == a * (b % 256)
    IN  (((p1 % 256) * 256) + (p0 % Half)) % Half

\* bits 16..31 of a * b, for a, b < 2^16
Hi16Mul(a, b) ==
    LET p1 == a * (b \div 256)
        p0 == a * (b % 256)
        carry == (((p1 % 256) * 256) + (p0 % Half)) \div Half
    IN  ((p1 \div 256) + (p0 \div Half) + carry) % Half

\* a.wrapping_mul(b) on u32 (release build), as the halves <<hi, lo>> of the
\* product: an origin x * tile_size may pass i32::MAX
WrappingMul(a, b) ==
    LET ah == a \div Half
        al == a % Half
        bh == b \div Half
        bl == b % Half
    IN  <<(Hi16Mul(al, bl) + Lo16Mul(ah, bl) + Lo16Mul(al, bh)) % Half,
          Lo16Mul(al, bl)>>

\* the u32 <<hi, lo>> as an integer, where it is below 2^31
ToInt(u) == u[1] * Half + u[2]

\* u > n for a u32 <<hi, lo>> and an integer n
Exceeds(u, n) ==
    u[1] > n \div Half \/ (u[1] = n \div Half /\ u[2] > n % Half)

(***************************************************************************)
(* Pixels and images.  An image is its width, its height, the pixels that  *)
(* were stored one by one (px) and the value every other pixel holds (bg): *)
(* ImageBuffer::new gives px empty and bg transparent, from_fn with a      *)
(* constant closure gives px empty and bg that constant.                   *)
(***************************************************************************)
Transparent == <<0, 0, 0, 0>>

NoPixels == [p \in {} |-> Transparent]

Coords(w, h) == (0 .. w - 1) \X (0 .. h - 1)

\* ImageBuffer::new(w, h): zero-initialised
NewImage(w, h) == [w |-> w, h |-> h, px |-> NoPixels, bg |-> Transparent]

\* ImageBuffer::from_fn(w, h, |_x, _y| c)
FlatImage(w, h, c) == [w |-> w, h |-> h, px |-> NoPixels, bg |-> c]

\* GenericImageView::get_pixel
GetPixel(img, x, y) ==
    IF <<x, y>> \in DOMAIN img.px THEN img.px[<<x, y>>] ELSE img.bg

(***************************************************************************)
(* Pixel::blend for Rgba<u8> (source-over).  The crate computes in f32 on  *)
(* channels scaled to 0..1 and casts back with truncation; the same        *)
(* quotients are taken here on integers scaled by 255.                     *)
(***************************************************************************)
\* 255^2 * alpha_final, alpha_final = bg_a + fg_a - bg_a * fg_a
AlphaFinal(bg, fg) == 255 * (bg[4] + fg[4]) - bg[4] * fg[4]

\* one colour channel c (1..3) of the blended pixel
BlendChannel(bg, fg, c) ==
    (fg[c] * fg[4] * 255 + bg[c] * bg[4] * (255 - fg[4])) \div AlphaFinal(bg, fg)

\* bg.blend(&fg)
Blend(bg, fg) ==
    IF fg[4] = 0 THEN bg
    ELSE IF fg[4] = 255 THEN fg
    ELSE IF AlphaFinal(bg, fg) = 0 THEN bg
    ELSE <<BlendChannel(bg, fg, 1), BlendChannel(bg, fg, 2),
           BlendChannel(bg, fg, 3), AlphaFinal(bg, fg) \div 255>>

(***************************************************************************)
(* imageops::overlay(bottom, top, x, y): the part of top that falls inside *)
(* bottom is blended onto it pixel by pixel.                               *)
(***************************************************************************)
Min(a, b) == IF a < b THEN a ELSE b

Max(a, b) == IF a > b THEN a ELSE b

\* overlay_bounds along one axis: how much of top fits into bottom from the
\* u32 offset x
OverlayRange(bottom_len, top_len, x) ==
    IF Exceeds(x, bottom_len) THEN 0
    ELSE IF ToInt(x) + top_len > bottom_len THEN bottom_len - ToInt(x)
    ELSE top_len

\* the canvas coordinates overlay writes (put_pixel) for a top image at (x, y)
OverlayArea(bottom, top, x, y) ==
    { <<ToInt(x) + i, ToInt(y) + j>> :
        i \in 0 .. OverlayRange(bottom.w, top.w, x) - 1,
        j \in 0 .. OverlayRange(bottom.h, top.h, y) - 1 }

\* imageops::overlay(bottom, top, x, y)
Overlay(bottom, top, x, y) ==
    LET area == OverlayArea(bottom, top, x, y)
    IN  [bottom EXCEPT !.px =
            [p \in (DOMAIN bottom.px) \cup area |->
                IF p \in area
                THEN Blend(GetPixel(bottom, p[1], p[2]),
                           GetPixel(top, p[1] - ToInt(x), p[2] - ToInt(y)))
                ELSE bottom.px[p]]]

(***************************************************************************)
(* DynamicImage::thumbnail(nwidth, nheight): resize_dimensions keeps the   *)
(* aspect ratio and fits the box, then every output pixel is the average   *)
(* of the block of source pixels it covers.                                *)
(***************************************************************************)
\* a * b <= c * d as the crate compares them in u64; a product that passes
\* i32::MAX is never formed (the model holds no two such products at once)
ProductLeq(a, b, c, d) ==
    LET fits(m, n) == m = 0 \/ n <= MaxInt \div m
    IN  IF fits(c, d) THEN fits(a, b) /\ a * b <= c * d ELSE fits(a, b)

\* resize_dimensions(width, height, nwidth, nheight, fill = false), width, height >= 1
ResizeDimensions(width, height, nwidth, nheight) ==
    IF ProductLeq(nwidth, height, width, nheight)
    THEN <<nwidth, Max(1, (height * nwidth) \div width)>>
    ELSE <<Max(1, (width * nheight) \div height), nheight>>

\* first source index of the block output index i covers, along an axis
BlockLo(i, len, nlen) == Min((i * len) \div nlen, len - 1)

\* one past the last source index of that block
BlockHi(i, len, nlen) ==
    Max(BlockLo(i, len, nlen) + 1, Min(len, ((i + 1) * len + nlen - 1) \div nlen))

RECURSIVE SumChannel(_, _, _)
SumChannel(img, c, cells) ==
    IF cells = {} THEN 0
    ELSE LET p == CHOOSE q \in cells : TRUE
         IN  GetPixel(img, p[1], p[2])[c] + SumChannel(img, c, cells \ {p})

\* the average of the source block behind output pixel (i, j)
SampleBlock(img, i, j, nw, nh) ==
    LET cells == (BlockLo(i, img.w, nw) .. BlockHi(i, img.w, nw) - 1)
                 \X (BlockLo(j, img.h, nh) .. BlockHi(j, img.h, nh) - 1)
        n == Cardinality(cells)
    IN  <<SumChannel(img, 1, cells) \div n, SumChannel(img, 2, cells) \div n,
          SumChannel(img, 3, cells) \div n, SumChannel(img, 4, cells) \div n>>

\* img.thumbnail(nwidth, nheight).to_rgba8(), img not empty
Thumbnail(img, nwidth, nheight) ==
    LET dims == ResizeDimensions(img.w, img.h, nwidth, nheight)
    IN  IF DOMAIN img.px = {}
        THEN FlatImage(dims[1], dims[2], img.bg)   \* every block averages to bg
        ELSE [w |-> dims[1], h |-> dims[2],
              px |-> [p \in Coords(dims[1], dims[2]) |->
                         SampleBlock(img, p[1], p[2], dims[1], dims[2])],
              bg |-> Transparent]

(***************************************************************************)
(* The command line.  An argument is a sequence of characters;             *)
(* args[1].trim().parse::<u32>() is modelled on them.                      *)
(***************************************************************************)
Digits == <<"0", "1", "2", "3", "4", "5", "6", "7", "8", "9">>

IsDigit(c) == \E d \in 1 .. 10 : Digits[d] = c

DigitValue(c) == (CHOOSE d \in 1 .. 10 : Digits[d] = c) - 1

RECURSIVE TrimStart(_)
TrimStart(s) == IF s # <<>> /\ Head(s) = " " THEN TrimStart(Tail(s)) ELSE s

RECURSIVE TrimEnd(_)
TrimEnd(s) ==
    IF s # <<>> /\ s[Len(s)] = " " THEN TrimEnd(SubSeq(s, 1, Len(s) - 1)) ELSE s

\* str::trim
Trim(s) == TrimEnd(TrimStart(s))

\* the digits of s folded into acc with checked_mul(10) and checked_add(d);
\* -1 stands for Err(PosOverflow) or Err(InvalidDigit)
RECURSIVE ParseDigits(_, _)
ParseDigits(s, acc) ==
    IF s = <<>> THEN acc
    ELSE IF ~IsDigit(Head(s)) THEN -1
    ELSE IF MulOverflows(acc, 10) THEN -1
    ELSE IF MaxInt - 5 * acc <= 4
            /\ DigitValue(Head(s)) > 2 * (MaxInt - 5 * acc) + 1 THEN -1
    ELSE ParseDigits(Tail(s), acc * 10 + DigitValue(Head(s)))

\* s.trim().parse::<u32>(): the value, or -1 for Err
ParseU32(s) ==
    LET t == Trim(s)
        body == IF t # <<>> /\ Head(t) = "+" THEN Tail(t) ELSE t
    IN  IF body = <<>> THEN -1 ELSE ParseDigits(body, 0)

\* the tile-size arguments the model runs main with
TileArgs ==
    { <<Digits[n + 1]>> : n \in 0 .. MaxTile }
    \cup { <<"6", "5", "5", "3", "6">>,                       \* Half
           <<" ", "+", "2", " ">>, <<"-", "2">>, <<"2", "x">>, <<>>,
           <<"4", "2", "9", "4", "9", "6", "7", "2", "9", "6">> }   \* u32::MAX + 1

\* env::args().len(): the program name and 2, 3 or 4 arguments
ArgCounts == {3, 4, 5}

(***************************************************************************)
(* The source images the decoder may return.                               *)
(***************************************************************************)
Palette == { <<200, 100, 50, 255>>, <<10, 20, 30, 128>> }

\* every image of up to MaxW x MaxH pixels over the palette, empty ones included
SmallSources ==
    UNION { { [w |-> w, h |-> h, px |-> f, bg |-> Transparent] :
                f \in [Coords(w, h) -> Palette] } :
            <<w, h>> \in (0 .. MaxW) \X (0 .. MaxH) }

\* a 65536 x 1 image of one colour: with tile size 65536 its canvas width
\* 65536 * 65536 leaves u32
WideSource == FlatImage(Half, 1, <<200, 100, 50, 255>>)

\* what image::open / load_from_memory may decode.  The wide image goes with
\* the wide tile only and the small images with the small tiles: the other
\* pairings have canvases of 2^17 pixels and more.
Sources(ts) == IF ts <= MaxTile THEN SmallSources ELSE {WideSource}

IsEmpty(img) == img.w = 0 \/ img.h = 0

(***************************************************************************)
(* State of one run of main.                                               *)
(***************************************************************************)
VARIABLES
    pc,               \* the statement main is at
    overflow_checks,  \* the build: TRUE for debug (overflow panics), FALSE for release (it wraps)
    args,             \* [argc, tile]: env::args().len() and args[1]
    tile_size,        \* line 27
    img_orig,         \* line 38
    img_tile,         \* line 80
    img_new,          \* line 86
    x, y,             \* the loop variables of lines 89 and 90
    img_color,        \* line 98
    exit_code,        \* the process's exit status, -1 while it runs
    diag,             \* what the process printed when it stopped
    input_read,       \* the input file was opened or the URL was fetched
    saved,            \* how many times the output file was written
    pat_writes,       \* per canvas pixel, how many pattern-tile overlays wrote it
    col_writes,       \* per canvas pixel, how many colour-tile overlays wrote it
    iterations,       \* how many times the loop body has run to its end
    composed          \* the source pixels composed so far, in order (kept under SpecAnyOrder)

vars == <<pc, overflow_checks, args, tile_size, img_orig, img_tile, img_new, x, y,
          img_color, exit_code, diag, input_read, saved, pat_writes, col_writes,
          iterations, composed>>

\* a variable main has not bound yet
Unbound == NewImage(0, 0)

NoWrites == [p \in {} |-> 0]

Init ==
    /\ pc = "args"
    /\ overflow_checks \in BOOLEAN
    /\ args \in [argc : ArgCounts, tile : TileArgs]
    /\ tile_size = 0
    /\ img_orig = Unbound
    /\ img_tile = Unbound
    /\ img_new = Unbound
    /\ x = 0
    /\ y = 0
    /\ img_color = Unbound
    /\ exit_code = -1
    /\ diag = ""
    /\ input_read = FALSE
    /\ saved = 0
    /\ pat_writes = NoWrites
    /\ col_writes = NoWrites
    /\ iterations = 0
    /\ composed = <<>>

\* process::exit(code) after println!(msg), or a panic (code 101, msg on stderr)
Exit(code, msg) ==
    /\ pc' = "exit"
    /\ exit_code' = code
    /\ diag' = msg

\* lines 18-24
CheckArgs ==
    /\ pc = "args"
    /\ IF args.argc # 4
       THEN Exit(1, "Invalid argument count")
       ELSE pc' = "parse" /\ UNCHANGED <<exit_code, diag>>
    /\ UNCHANGED <<overflow_checks, args, tile_size, img_orig, img_tile, img_new, x, y,
                   img_color, input_read, saved, pat_writes, col_writes, iterations, composed>>

\* line 27
ParseTileSize ==
    /\ pc = "parse"
    /\ IF ParseU32(args.tile) < 0
       THEN Exit(101, "TILE_SIZE expects a numeric value") /\ UNCHANGED tile_size
       ELSE /\ tile_size' = ParseU32(args.tile)
            /\ pc' = "validate"
            /\ UNCHANGED <<exit_code, diag>>
    /\ UNCHANGED <<overflow_checks, args, img_orig, img_tile, img_new, x, y,
                   img_color, input_read, saved, pat_writes, col_writes, iterations, composed>>

\* ValidateTileSize with the minimum off by one: tile size 1 passes
ValidateTileSizeFromOne ==
    /\ pc = "validate"
    /\ IF tile_size < 1
       THEN Exit(1, "Invalid tile size (minimum 2)")
       ELSE pc' = "input" /\ UNCHANGED <<exit_code, diag>>
    /\ UNCHANGED <<overflow_checks, args, tile_size, img_orig, img_tile, img_new, x, y,
                   img_color, input_read, saved, pat_writes, col_writes, iterations, composed>>

\* lines 32-35
ValidateTileSize ==
    /\ pc = "validate"
    /\ IF tile_size < 2
       THEN Exit(1, "Invalid tile size (minimum 2)")
       ELSE pc' = "input" /\ UNCHANGED <<exit_code, diag>>
    /\ UNCHANGED <<overflow_checks, args, tile_size, img_orig, img_tile, img_new, x, y,
                   img_color, input_read, saved, pat_writes, col_writes, iterations, composed>>

\* line 38: path::Path::new(input_file).exists()
CheckInputPath ==
    /\ pc = "input"
    /\ \E exists \in BOOLEAN : pc' = IF exists THEN "open" ELSE "fetch"
    /\ UNCHANGED <<overflow_checks, args, tile_size, img_orig, img_tile, img_new, x, y,
                   img_color, exit_code, diag, input_read, saved, pat_writes,
                   col_writes, iterations, composed>>

\* line 39: image::open(input_file).unwrap()
OpenInput ==
    /\ pc = "open"
    /\ input_read' = TRUE
    /\ \/ \E img \in Sources(tile_size) :
            /\ img_orig' = img
            /\ pc' = "tile"
            /\ UNCHANGED <<exit_code, diag>>
       \/ Exit(101, "image::open: called Result::unwrap() on an Err value")
          /\ UNCHANGED img_orig
    /\ UNCHANGED <<overflow_checks, args, tile_size, img_tile, img_new, x, y,
                   img_color, saved, pat_writes, col_writes, iterations, composed>>

\* lines 41-54: reqwest::blocking::get(input_file)
FetchUrl ==
    /\ pc = "fetch"
    /\ input_read' = TRUE
    /\ \E res \in {"Err", "200", "404"} :
          IF res = "Err" THEN Exit(1, "Unknown file error")
          ELSE IF res # "200" THEN Exit(1, "File does not exist")
          ELSE pc' = "bytes" /\ UNCHANGED <<exit_code, diag>>
    /\ UNCHANGED <<overflow_checks, args, tile_size, img_orig, img_tile, img_new, x, y,
                   img_color, saved, pat_writes, col_writes, iterations, composed>>

\* lines 56-64: img_from_url.bytes()
ReadBytes ==
    /\ pc = "bytes"
    /\ \E ok \in BOOLEAN :
          IF ok THEN pc' = "decode" /\ UNCHANGED <<exit_code, diag>>
          ELSE Exit(1, "Unknown file error")
    /\ UNCHANGED <<overflow_checks, args, tile_size, img_orig, img_tile, img_new, x, y,
                   img_color, input_read, saved, pat_writes, col_writes, iterations, composed>>

\* lines 66-76: image::load_from_memory(&image_from_url_bytes)
DecodeBytes ==
    /\ pc = "decode"
    /\ \/ \E img \in Sources(tile_size) :
            /\ img_orig' = img
            /\ pc' = "tile"
            /\ UNCHANGED <<exit_code, diag>>
       \/ Exit(1, "Unknown file error") /\ UNCHANGED img_orig
    /\ UNCHANGED <<overflow_checks, args, tile_size, img_tile, img_new, x, y,
                   img_color, input_read, saved, pat_writes, col_writes, iterations, composed>>

\* line 80: img_orig.thumbnail(tile_size, tile_size).to_rgba8().  main does not
\* test for an empty image: the crate then panics or hands back a tile, which
\* the loop never uses.
MakeTile ==
    /\ pc = "tile"
    /\ IF IsEmpty(img_orig)
       THEN \/ Exit(101, "thumbnail panicked") /\ UNCHANGED img_tile
            \/ /\ img_tile' = NewImage(1, 1)
               /\ pc' = "alloc"
               /\ UNCHANGED <<exit_code, diag>>
       ELSE /\ img_tile' = Thumbnail(img_orig, tile_size, tile_size)
            /\ pc' = "alloc"
            /\ UNCHANGED <<exit_code, diag>>
    /\ UNCHANGED <<overflow_checks, args, tile_size, img_orig, img_new, x, y,
                   img_color, input_read, saved, pat_writes, col_writes, iterations, composed>>

\* a * b on u32 panics on overflow in a debug build
MulPanics(a, b) == overflow_checks /\ MulOverflows(a, b)

\* a * b on u32 where it does not panic
Mul(a, b) == WrappingMul(a, b)

\* a width or height of the canvas: a u32 the model holds as an integer
Dim(a, b) == ToInt(Mul(a, b))

\* the loop of lines 89-90 starts at (0, 0) or has no iteration at all
LoopEntry == IF img_orig.w > 0 /\ img_orig.h > 0 THEN "pattern" ELSE "save"

\* lines 83-86: dimensions() and ImageBuffer::new(width_orig * tile_size, height_orig * tile_size)
AllocCanvas ==
    /\ pc = "alloc"
    /\ IF MulPanics(img_orig.w, tile_size) \/ MulPanics(img_orig.h, tile_size)
       THEN Exit(101, "attempt to multiply with overflow") /\ UNCHANGED <<img_new, x, y>>
       ELSE /\ img_new' = NewImage(Dim(img_orig.w, tile_size), Dim(img_orig.h, tile_size))
            /\ x' = 0
            /\ y' = 0
            /\ pc' = LoopEntry
            /\ UNCHANGED <<exit_code, diag>>
    /\ UNCHANGED <<overflow_checks, args, tile_size, img_orig, img_tile,
                   img_color, input_read, saved, pat_writes, col_writes, iterations, composed>>

\* the counts m with one more write at every coordinate of area
AddWrites(m, area) ==
    [p \in (DOMAIN m) \cup area |->
        (IF p \in DOMAIN m THEN m[p] ELSE 0) + (IF p \in area THEN 1 ELSE 0)]

\* OriginOf with a stride one short of the tile: neighbouring tiles overlap
OriginOfOverlapping(v) == Mul(v, tile_size - 1)

\* v * tile_size, the offset lines 92 and 103 pass for the loop variable v
OriginOf(v) == Mul(v, tile_size)

OriginX == OriginOf(x)

OriginY == OriginOf(y)

\* line 92: imageops::overlay(&mut img_new, &img_tile, x * tile_size, y * tile_size)
OverlayPattern ==
    /\ pc = "pattern"
    /\ IF MulPanics(x, tile_size) \/ MulPanics(y, tile_size)
       THEN Exit(101, "attempt to multiply with overflow")
            /\ UNCHANGED <<img_new, pat_writes>>
       ELSE /\ img_new' = Overlay(img_new, img_tile, OriginX, OriginY)
            /\ pat_writes' = AddWrites(pat_writes, OverlayArea(img_new, img_tile, OriginX, OriginY))
            /\ pc' = "pixel"
            /\ UNCHANGED <<exit_code, diag>>
    /\ UNCHANGED <<overflow_checks, args, tile_size, img_orig, img_tile, x, y,
                   img_color, input_read, saved, col_writes, iterations, composed>>

\* ColorTile with the source pixel copied whole, its alpha included
ColorTileKeepsAlpha(sx, sy) ==
    FlatImage(tile_size, tile_size, GetPixel(img_orig, sx, sy))

\* the colour tile of lines 95-100 for source pixel (sx, sy)
ColorTile(sx, sy) ==
    LET pixel == GetPixel(img_orig, sx, sy)
    IN  FlatImage(tile_size, tile_size, <<pixel[1], pixel[2], pixel[3], 127>>)

\* lines 95-100: get_pixel(x, y) and ImageBuffer::from_fn
BuildColor ==
    /\ pc = "pixel"
    /\ img_color' = ColorTile(x, y)
    /\ pc' = "color"
    /\ UNCHANGED <<overflow_checks, args, tile_size, img_orig, img_tile, img_new, x, y,
                   exit_code, diag, input_read, saved, pat_writes, col_writes, iterations, composed>>

\* NextX with the inner loop left after its first pass
NextXSkipsRows == x + 1

\* the loop variables after the body has run for (x, y): lines 89-90
NextX == IF y + 1 < img_orig.h THEN x ELSE x + 1

NextY == IF y + 1 < img_orig.h THEN y + 1 ELSE 0

\* OverlayColor with the two layers exchanged: the pattern tile ends on top
OverlayColorUnderPattern ==
    /\ pc = "color"
    /\ img_new' = Overlay(Overlay(img_new, img_color, OriginX, OriginY),
                          img_tile, OriginX, OriginY)
    /\ col_writes' = AddWrites(col_writes, OverlayArea(img_new, img_color, OriginX, OriginY))
    /\ iterations' = iterations + 1
    /\ x' = IF y + 1 < img_orig.h THEN x ELSE x + 1
    /\ y' = IF y + 1 < img_orig.h THEN y + 1 ELSE 0
    /\ pc' = IF x' < img_orig.w THEN "pattern" ELSE "save"
    /\ UNCHANGED <<overflow_checks, args, tile_size, img_orig, img_tile,
                   img_color, exit_code, diag, input_read, saved, pat_writes, composed>>

\* line 103: imageops::overlay(&mut img_new, &img_color, x * tile_size, y * tile_size),
\* then the next iteration or the end of the loops
OverlayColor ==
    /\ pc = "color"
    /\ img_new' = Overlay(img_new, img_color, OriginX, OriginY)
    /\ col_writes' = AddWrites(col_writes, OverlayArea(img_new, img_color, OriginX, OriginY))
    /\ iterations' = iterations + 1
    /\ x' = NextX
    /\ y' = NextY
    /\ pc' = IF NextX < img_orig.w THEN "pattern" ELSE "save"
    /\ UNCHANGED <<overflow_checks, args, tile_size, img_orig, img_tile,
                   img_color, exit_code, diag, input_read, saved, pat_writes, composed>>

\* line 108: img_new.save(output_file).unwrap()
Save ==
    /\ pc = "save"
    /\ \/ saved' = saved + 1 /\ Exit(0, "")
       \/ Exit(101, "save: called Result::unwrap() on an Err value") /\ UNCHANGED saved
    /\ UNCHANGED <<overflow_checks, args, tile_size, img_orig, img_tile, img_new, x, y,
                   img_color, input_read, pat_writes, col_writes, iterations, composed>>

Next ==
    \/ CheckArgs
    \/ ParseTileSize
    \/ ValidateTileSize
    \/ CheckInputPath
    \/ OpenInput
    \/ FetchUrl
    \/ ReadBytes
    \/ DecodeBytes
    \/ MakeTile
    \/ AllocCanvas
    \/ OverlayPattern
    \/ BuildColor
    \/ OverlayColor
    \/ Save

Spec == Init /\ [][Next]_vars

(***************************************************************************)
(* The loop of lines 89-105 as a function of the canvas, and the same      *)
(* iterations run in any order.                                            *)
(***************************************************************************)
\* one iteration of the loop body for source pixel (sx, sy): lines 92-103
IterationOn(canvas, sx, sy) ==
    Overlay(Overlay(canvas, img_tile, OriginOf(sx), OriginOf(sy)),
            ColorTile(sx, sy), OriginOf(sx), OriginOf(sy))

\* the iterations from (sx, sy) on, in the order of lines 89-90: x outside, y inside
RECURSIVE ColumnMajorFrom(_, _, _)
ColumnMajorFrom(canvas, sx, sy) ==
    IF sx >= img_orig.w \/ img_orig.h = 0 THEN canvas
    ELSE IF sy + 1 < img_orig.h
         THEN ColumnMajorFrom(IterationOn(canvas, sx, sy), sx, sy + 1)
         ELSE ColumnMajorFrom(IterationOn(canvas, sx, sy), sx + 1, 0)

\* the same iterations with the loops exchanged: y outside, x inside
RECURSIVE RowMajorFrom(_, _, _)
RowMajorFrom(canvas, sx, sy) ==
    IF sy >= img_orig.h \/ img_orig.w = 0 THEN canvas
    ELSE IF sx + 1 < img_orig.w
         THEN RowMajorFrom(IterationOn(canvas, sx, sy), sx + 1, sy)
         ELSE RowMajorFrom(IterationOn(canvas, sx, sy), 0, sy + 1)

\* the canvas of line 86
FreshCanvas == NewImage(Dim(img_orig.w, tile_size), Dim(img_orig.h, tile_size))

\* most source pixels of an image whose iterations are run in every order
MaxOrderPixels == 4

\* the state main is in when it enters the loop, for every small valid input,
\* with any source pixel picked first
InitCompose ==
    /\ pc = "pattern"
    /\ overflow_checks \in BOOLEAN
    /\ tile_size \in 2 .. MaxTile
    /\ args = [argc |-> 4, tile |-> <<Digits[tile_size + 1]>>]
    /\ img_orig \in { s \in SmallSources : ~IsEmpty(s) /\ s.w * s.h <= MaxOrderPixels }
    /\ img_tile = Thumbnail(img_orig, tile_size, tile_size)
    /\ img_new = FreshCanvas
    /\ x \in 0 .. img_orig.w - 1
    /\ y \in 0 .. img_orig.h - 1
    /\ img_color = Unbound
    /\ exit_code = -1
    /\ diag = ""
    /\ input_read = TRUE
    /\ saved = 0
    /\ pat_writes = NoWrites
    /\ col_writes = NoWrites
    /\ iterations = 0
    /\ composed = <<>>

Range(seq) == { seq[i] : i \in 1 .. Len(seq) }

\* line 103, then any source pixel not composed yet instead of the next one
OverlayColorAnyOrder ==
    /\ pc = "color"
    /\ img_new' = Overlay(img_new, img_color, OriginX, OriginY)
    /\ col_writes' = AddWrites(col_writes, OverlayArea(img_new, img_color, OriginX, OriginY))
    /\ iterations' = iterations + 1
    /\ composed' = Append(composed, <<x, y>>)
    /\ LET left == Coords(img_orig.w, img_orig.h) \ Range(composed')
       IN  IF left = {}
           THEN pc' = "save" /\ UNCHANGED <<x, y>>
           ELSE pc' = "pattern" /\ \E p \in left : x' = p[1] /\ y' = p[2]
    /\ UNCHANGED <<overflow_checks, args, tile_size, img_orig, img_tile,
                   img_color, exit_code, diag, input_read, saved, pat_writes>>

NextAnyOrder ==
    \/ OverlayPattern
    \/ BuildColor
    \/ OverlayColorAnyOrder

SpecAnyOrder == InitCompose /\ [][NextAnyOrder]_vars

(***************************************************************************)
(* Vocabulary of the properties.                                           *)
(***************************************************************************)
\* main is in the pixel loop or has just left it
LoopStates == {"pattern", "pixel", "color", "save"}

\* the source image has at least one pixel
SourceValid == img_orig.w >= 1 /\ img_orig.h >= 1

\* n = a * b for b >= 2, without forming a product that leaves TLC's integers
IsProduct(n, a, b) == n \div b = a /\ n % b = 0

CanvasCoords == Coords(img_new.w, img_new.h)

\* how many overlays counted in m wrote canvas pixel p
Writes(m, p) == IF p \in DOMAIN m THEN m[p] ELSE 0

\* canvas pixel p lies in the rectangle of source pixel (sx, sy):
\* [sx * tile_size, (sx + 1) * tile_size) x [sy * tile_size, (sy + 1) * tile_size)
InRect(p, sx, sy) == p[1] \div tile_size = sx /\ p[2] \div tile_size = sy

\* every pixel of img is c
AllPixels(img, c) ==
    /\ \A p \in DOMAIN img.px : img.px[p] = c
    /\ DOMAIN img.px = {} => img.bg = c

\* every pixel of the pattern tile is opaque
TileOpaque ==
    /\ \A p \in DOMAIN img_tile.px : img_tile.px[p][4] = 255
    /\ DOMAIN img_tile.px = {} => img_tile.bg[4] = 255

\* the messages main stops with when the input cannot be loaded
InputFailures ==
    { "File does not exist", "Unknown file error",
      "image::open: called Result::unwrap() on an Err value" }

(***************************************************************************)
(* C1.  For every source image of width W >= 1 and height H >= 1 and every *)
(* tile_size >= 2, the canvas main allocates is exactly W * tile_size wide *)
(* and H * tile_size high, throughout the pixel loop.                      *)
(* Fails in a release build when W * tile_size leaves u32: W = 65536 and   *)
(* tile_size = 65536 give a canvas of width 0.                             *)
(***************************************************************************)
C1_CanvasDimensions ==
    (pc \in LoopStates /\ SourceValid) =>
        /\ IsProduct(img_new.w, img_orig.w, tile_size)
        /\ IsProduct(img_new.h, img_orig.h, tile_size)

(***************************************************************************)
(* C2.  When the pixel loop has finished, for every source image, square   *)
(* or not, every canvas pixel has been written by exactly one pattern-tile *)
(* overlay and exactly one colour-tile overlay and none is still           *)
(* transparent, the pattern tile being the thumbnail of the source.        *)
(* Fails for a source that is not square: the thumbnail keeps the aspect   *)
(* ratio, is smaller than tile_size in one direction, and the rest of each *)
(* rectangle gets no pattern overlay.                                      *)
(***************************************************************************)
C2_FullyPopulated ==
    (pc = "save" /\ SourceValid) =>
        /\ img_tile = Thumbnail(img_orig, tile_size, tile_size)
        /\ \A p \in CanvasCoords :
              /\ Writes(pat_writes, p) = 1
              /\ Writes(col_writes, p) = 1
              /\ GetPixel(img_new, p[1], p[2]) # Transparent

(***************************************************************************)
(* C3.  After composition every canvas pixel of every source pixel's       *)
(* rectangle has alpha 255, given that every pixel of the pattern tile is  *)
(* opaque.  (The rectangles are the canvas: the pixels are taken from it.) *)
(* Fails for an opaque source that is not square: where the pattern tile   *)
(* does not reach, the colour tile alone leaves alpha 127.                 *)
(***************************************************************************)
C3_RectanglesOpaque ==
    (pc = "save" /\ SourceValid /\ TileOpaque) =>
        \A p \in CanvasCoords : GetPixel(img_new, p[1], p[2])[4] = 255

(***************************************************************************)
(* C4.  The two overlays for source pixel (x, y) change canvas pixels of   *)
(* its rectangle only, and the rectangles of all source pixels are         *)
(* disjoint and together the whole canvas: every canvas pixel lies in the  *)
(* rectangle of one source pixel and every rectangle lies in the canvas.   *)
(* The second half fails with C1: a canvas whose width wrapped holds no    *)
(* rectangle.                                                              *)
(***************************************************************************)
\* an overlay step writes inside the rectangle of (x, y) only
FrameStep ==
    (pc \in {"pattern", "color"} /\ pc' # "exit") =>
        /\ img_new'.w = img_new.w
        /\ img_new'.h = img_new.h
        /\ \A p \in DOMAIN img_new'.px :
              InRect(p, x, y)
              \/ (p \in DOMAIN img_new.px /\ img_new'.px[p] = img_new.px[p])

\* the rectangles of the source pixels tile the canvas
RectanglesTileCanvas ==
    (pc \in LoopStates /\ SourceValid) =>
        /\ img_orig.w <= img_new.w \div tile_size
        /\ img_orig.h <= img_new.h \div tile_size
        /\ \A p \in CanvasCoords :
              p[1] \div tile_size < img_orig.w /\ p[2] \div tile_size < img_orig.h

C4_DisjointRectangles == [][FrameStep /\ RectanglesTileCanvas']_vars

C6_ColorTile ==
    pc = "color" =>
        LET src == GetPixel(img_orig, x, y)
        IN  /\ img_color.w = tile_size
            /\ img_color.h = tile_size
            /\ AllPixels(img_color, <<src[1], src[2], src[3], 127>>)

\* a colour tile built from a source pixel whose alpha is neither 127 nor 255
C6_Witness ==
    /\ pc = "color"
    /\ tile_size = MaxTile
    /\ <<x, y>> # <<0, 0>>
    /\ GetPixel(img_orig, x, y)[4] = 128

(***************************************************************************)
(* C7.  A run with a wrong argument count, a tile size that is not a       *)
(* number or a tile size below 2 ends with a non-zero exit code and a      *)
(* message, before any input is read and without writing the output file.  *)
(***************************************************************************)
\* the command line is one of the three rejected kinds (ParseU32 is -1 for no number)
BadArguments == args.argc # 4 \/ ParseU32(args.tile) < 2

C7_BadArgumentsRejected ==
    BadArguments =>
        /\ pc \in {"args", "parse", "validate", "exit"}
        /\ ~input_read
        /\ saved = 0
        /\ pc = "exit" => (exit_code # 0 /\ diag # "")

\* the run with tile size 1 has stopped
C7_Witness ==
    /\ pc = "exit"
    /\ args.argc = 4
    /\ ParseU32(args.tile) = 1
    /\ diag = "Invalid tile size (minimum 2)"

(***************************************************************************)
(* C8.  The output file is written at most once and only after every       *)
(* source pixel has been composed; a run whose input cannot be loaded      *)
(* (fetch error, status other than 200, unreadable body, undecodable       *)
(* bytes or file) exits non-zero and writes no output file.                *)
(***************************************************************************)
C8_SaveOnceAtEnd ==
    /\ saved <= 1
    /\ saved = 1 =>
          /\ iterations = img_orig.w * img_orig.h
          /\ pc = "exit"
          /\ exit_code = 0
    /\ (pc = "exit" /\ diag \in InputFailures) => (exit_code # 0 /\ saved = 0)
    /\ (pc = "exit" /\ exit_code # 0) => saved = 0

\* the output file of a source with several pixels has been written
C8_Witness ==
    /\ saved = 1
    /\ iterations = MaxW * MaxH

(***************************************************************************)
(* C9.  A decoded source image of width 0 or height 0 makes composition    *)
(* fail with an EmptySourceImage error instead of a saved 0-sized image.   *)
(* main has no such test: the run ends in a panic of the image crate or    *)
(* saves the empty canvas.                                                 *)
(***************************************************************************)
C9_EmptySourceRejected ==
    (pc = "exit" /\ input_read /\ diag \notin InputFailures /\ IsEmpty(img_orig)) =>
        /\ exit_code # 0
        /\ diag = "EmptySourceImage"
        /\ saved = 0

(***************************************************************************)
(* C10.  In every iteration the pattern tile is overlaid first and the     *)
(* colour tile second, at the same origin (x * tile_size, y * tile_size),  *)
(* so that the colour tile is blended over what the pattern tile wrote;    *)
(* the pattern tile is computed once before the loop and never modified.   *)
(***************************************************************************)
\* what the iteration for (x, y) must leave at canvas pixel p of its rectangle:
\* the colour over the pattern where the pattern tile reaches, over the fresh
\* canvas elsewhere
ColorOverPattern(p) ==
    LET src == GetPixel(img_orig, x, y)
        color == <<src[1], src[2], src[3], 127>>
        tx == p[1] - x * tile_size
        ty == p[2] - y * tile_size
    IN  IF tx < img_tile.w /\ ty < img_tile.h
        THEN Blend(Blend(Transparent, GetPixel(img_tile, tx, ty)), color)
        ELSE Blend(Transparent, color)

C10_Step ==
    /\ pc \in LoopStates => img_tile' = img_tile
    /\ (pc' \in LoopStates /\ ~IsEmpty(img_orig')) =>
          img_tile' = Thumbnail(img_orig', tile_size', tile_size')
    /\ pc = "pattern" => pc' \in {"pixel", "exit"}
    /\ pc = "pixel" => pc' = "color"
    /\ pc = "color" =>
          /\ OverlayArea(img_new, img_tile, OriginX, OriginY)
                \subseteq OverlayArea(img_new, img_color, OriginX, OriginY)
          /\ \A p \in OverlayArea(img_new, img_color, OriginX, OriginY) :
                /\ InRect(p, x, y)
                /\ Writes(col_writes, p) = 0
                /\ Writes(col_writes', p) = 1
                /\ img_new'.px[p] = ColorOverPattern(p)
          /\ \A p \in OverlayArea(img_new, img_tile, OriginX, OriginY) :
                Writes(pat_writes, p) = 1

C10_PatternThenColor == [][C10_Step]_vars

\* an iteration other than the first has ended, and a pixel it wrote is
\* neither the pattern's nor the colour's
C10_Witness ==
    /\ pc = "save"
    /\ iterations >= 2
    /\ \E p \in CanvasCoords :
          /\ Writes(pat_writes, p) = 1
          /\ Writes(col_writes, p) = 1
          /\ p[1] >= tile_size
          /\ GetPixel(img_new, p[1], p[2])[4] = 255
          /\ GetPixel(img_new, p[1], p[2])
                # GetPixel(img_tile, p[1] % tile_size, p[2] % tile_size)

====
